---- MODULE Spec2Model ----
(***************************************************************************)
(* jsonmon: the concurrent check scheduler (one worker goroutine per       *)
(* check), the shared status cache (checks + modified, guarded by an       *)
(* RWMutex) and the /status and /version handlers, modelled from           *)
(* src/main.go.                                                            *)
(***************************************************************************)
EXTENDS Integers, Sequences, FiniteSets, TLC

\* ------------------------------------------------------------------ bounds

\* The wall clock takes the values 0..MaxClock; time.Now() is not taken at MaxClock.
MaxClock == 3

\* Clock ticks per second: time.RFC3339 keeps whole seconds, UnixNano every tick.
TicksPerSec == 2

\* A web target answers with at most MaxChain consecutive redirects.
MaxChain == 12

\* ------------------------------------------------------- program constants

DefaultRepeat == 30

DefaultTries == 1

DefaultReturn == 200

MaxVia == 10

StatusOK == 200

StatusNotModified == 304

Version == "3.2-alpha"

\* ------------------------------------------------------------ the clock

\* strconv.FormatInt(ts.UnixNano(), 10) wrapped as a weak validator.
etag(t) == "W/\"" \o ToString(t) \o "\""

\* ts.Format(time.RFC3339): the timestamp cut to whole seconds.
FormatRFC3339(t) == "T+" \o ToString(t \div TicksPerSec) \o "s"

\* ------------------------------------------------------- configurations

\* A Check as yaml.Unmarshal leaves it: Failed and Since are not read from the file.
NewCheck(name, web, shell, match, tries, notify, alert) ==
    [Name |-> name, Web |-> web, Shell |-> shell, Match |-> match, Return |-> 0,
     Notify |-> notify, Alert |-> alert, Tries |-> tries, Repeat |-> 0, Sleep |-> 0,
     Failed |-> FALSE, Since |-> ""]

EchoOk == NewCheck("", "", "echo ok", "", 0, "", "")

ShellMatch == NewCheck("disk", "", "df -h", "ok", 2, "", "/bin/alert")

ShellBadRegex == NewCheck("", "", "uptime", "(", 2, "", "")

ShellNegTries == NewCheck("", "", "true", "", -1, "", "")

WebPlain == NewCheck("", "http://a/", "", "", 2, "ops@example.org", "")

WebMatch == NewCheck("site", "http://b/", "", "ok", 2, "", "")

WebBadRegex == NewCheck("", "http://c/", "", "(", 2, "", "")

NoProbe == NewCheck("empty", "", "", "", 0, "", "")

BothProbes == NewCheck("", "http://d/", "date", "", 0, "", "")

\* The configuration files the model is run on (the checks in file order).
Configs ==
    { <<EchoOk, WebPlain>>,
      <<ShellMatch, NoProbe>>,
      <<BothProbes, WebMatch>>,
      <<ShellNegTries, EchoOk>>,
      <<ShellBadRegex>>,
      <<WebBadRegex>>,
      <<EchoOk>> }

\* The configuration files the fair specifications are run on: two valid checks,
\* a valid and an invalid one, a shell check with an alert command, a web check
\* with a notify address.
FairConfigs ==
    { <<EchoOk, EchoOk>>, <<EchoOk, NoProbe>>, <<ShellMatch>>, <<WebPlain>> }

\* regexp.Compile(match) returns no error.
Compiles(match) == match # "("

\* ------------------------------------------------------------- the state

VARIABLES
    checks,     \* var checks []Check
    modified,   \* var modified string
    started,    \* var started string
    mutex,      \* var mutex *sync.RWMutex: w = the worker holding Lock (0: none), r = RLock holders
    now,        \* the wall clock
    pc,         \* pc[w]: where worker w is in worker/shell/web
    i,          \* i[w]: the loop variable of the retry loop
    out,        \* out[w]: the output of the last shell attempt
    err,        \* err[w]: the error of the last attempt ("" is nil)
    ts,         \* ts[w]: the time.Now() of a transition
    name,       \* name[w]: the display name the worker computed
    history,    \* history[w]: the outcomes of the attempts of the current cycle
    slept,      \* slept[w]: the retry delays slept in the current cycle
    flips,      \* flips[w]: how often checks[w].Failed changed value
    sent,       \* sent[w]: the log lines, mails and alert commands dispatched
    hpc,        \* where the /status handler is
    req,        \* the If-None-Match of the /status request being served ("" between requests)
    seen,       \* *cache as the comparison of displayJSON read it
    resp,       \* the last response written
    cache,      \* the client's copy of the last 200 response of /status
    client      \* one client.Do(req) of fetch against a target that redirects

vars == <<checks, modified, started, mutex, now, pc, i, out, err, ts, name,
          history, slept, flips, sent, hpc, req, seen, resp, cache, client>>

programVars == <<checks, modified, started, mutex, now, pc, i, out, err, ts, name,
                 history, slept, flips, sent, hpc, req, seen, resp, cache>>

workerVars == <<pc, i, out, err, ts, name, history, slept, flips, sent>>

httpVars == <<hpc, req, seen, resp, cache>>

clientVars == <<client>>

Workers == 1..Len(checks)

\* The workers of the largest configuration.
WorkerIds == UNION {DOMAIN cs : cs \in Configs \union FairConfigs}

\* Invalid with the second test of worker left out: both probes set passes.
InvalidNeitherOnly(c) == c.Shell = "" /\ c.Web = ""

\* check.Shell == "" && check.Web == "", or both set: the worker returns at once.
Invalid(c) == (c.Shell = "" /\ c.Web = "") \/ (c.Shell # "" /\ c.Web # "")

NoResponse == [path |-> "", status |-> 0, headers |-> {}, body |-> <<>>]

\* Nothing dispatched yet: the counts, the last log line, mail and alert
\* arguments, and the "<3>" lines the last dispatch wrote to stderr.
NoNotifications ==
    [log |-> 0, mail |-> 0, alert |-> 0, logged |-> "", mailed |-> "", alerted |-> <<>>,
     stderr |-> <<>>]

\* No request of fetch under way: a target that answers n redirects, the
\* requests made so far, the User-Agent of the request to send, and the outcome.
NoRequest(n) == [n |-> n, via |-> 0, agent |-> "jsonmon", state |-> "request", err |-> ""]

\* main: the config is loaded, started and modified are set, one worker per check is spawned.
ProgramInitOn(configs) ==
    /\ checks \in configs
    /\ now = 0
    /\ started = etag(0)
    /\ modified = etag(0)
    /\ mutex = [w |-> 0, r |-> 0]
    /\ pc = [w \in Workers |-> "start"]
    /\ i = [w \in Workers |-> 0]
    /\ out = [w \in Workers |-> ""]
    /\ err = [w \in Workers |-> ""]
    /\ ts = [w \in Workers |-> 0]
    /\ name = [w \in Workers |-> ""]
    /\ history = [w \in Workers |-> <<>>]
    /\ slept = [w \in Workers |-> 0]
    /\ flips = [w \in Workers |-> 0]
    /\ sent = [w \in Workers |-> NoNotifications]
    /\ hpc = "idle"
    /\ req = ""
    /\ seen = ""
    /\ resp = NoResponse
    /\ cache = [etag |-> "", body |-> <<>>]

ProgramInit == ProgramInitOn(Configs)

Init == ProgramInit /\ client = NoRequest(0)

\* The write through a pointer that aliases one variable for every worker, as
\* the address of a range loop's variable does: it lands in the last check.
StoreShared(cs, w, c) == [cs EXCEPT ![Len(cs)] = c]

\* A write of worker w through its check *Check: main hands it &checks[i].
Store(cs, w, c) == [cs EXCEPT ![w] = c]

\* ------------------------------------------------------------ the mutex

\* CanLock of a mutex whose Lock does not wait for the readers.
CanLockDespiteReaders == mutex.w = 0

\* mutex.Lock() returns: no writer and no reader holds the mutex.
CanLock == mutex.w = 0 /\ mutex.r = 0

\* The statement after each mutex.Lock() of worker, shell and web.
AfterLock(p) ==
    CASE p = "invalid_lock" -> "invalid_cs"
      [] p = "defaults_lock" -> "defaults_cs"
      [] p = "return_lock" -> "return_cs"
      [] p = "transition_lock" -> "transition_cs"

LockWaiting == {"invalid_lock", "defaults_lock", "return_lock", "transition_lock"}

\* mutex.Lock() of worker w.
Lock(w) ==
    /\ pc[w] \in LockWaiting
    /\ CanLock
    /\ mutex' = [mutex EXCEPT !.w = w]
    /\ pc' = [pc EXCEPT ![w] = AfterLock(pc[w])]
    /\ UNCHANGED <<checks, modified, started, now, i, out, err, ts, name,
                   history, slept, flips, sent>>
    /\ UNCHANGED httpVars
    /\ UNCHANGED clientVars

\* Unlocked of a critical section that misses its Unlock.
StillLocked == mutex

\* mutex.Unlock().
Unlocked == [mutex EXCEPT !.w = 0]

\* ----------------------------------------------------------- the worker

\* The first statement of shell/web: the retry loop runs its body while i < check.Tries.
LoopEntry(c) == IF 0 < c.Tries THEN "attempt" ELSE "process"

\* The next step of worker after the interval when a failed check ends its loop.
NextCycleUntilFailed(c) == IF c.Failed THEN "returned" ELSE LoopEntry(c)

\* worker: for { shell(...) or web(...); time.Sleep(repeat) } has no exit.
NextCycle(c) == LoopEntry(c)

\* worker: the two validity tests; a valid check goes on to set its defaults.
WorkerStart(w) ==
    /\ pc[w] = "start"
    /\ pc' = [pc EXCEPT ![w] = IF Invalid(checks[w]) THEN "invalid_lock" ELSE "defaults_lock"]
    /\ UNCHANGED <<checks, modified, started, mutex, now, i, out, err, ts, name,
                   history, slept, flips, sent>>
    /\ UNCHANGED httpVars
    /\ UNCHANGED clientVars

\* What the worker writes for an invalid check.
InvalidMarked(c) == [c EXCEPT !.Failed = TRUE]

\* worker: check.Failed = true under the mutex, then return.
InvalidMark(w) ==
    /\ pc[w] = "invalid_cs"
    /\ checks' = Store(checks, w, InvalidMarked(checks[w]))
    /\ flips' = [flips EXCEPT ![w] = @ + (IF checks'[w].Failed # checks[w].Failed THEN 1 ELSE 0)]
    /\ mutex' = Unlocked
    /\ pc' = [pc EXCEPT ![w] = "returned"]
    /\ UNCHANGED <<modified, started, now, i, out, err, ts, name, history, slept, sent>>
    /\ UNCHANGED httpVars
    /\ UNCHANGED clientVars

\* The defaults of Repeat and Tries.
WithDefaults(c) ==
    [c EXCEPT !.Repeat = IF c.Repeat = 0 THEN DefaultRepeat ELSE c.Repeat,
              !.Tries = IF c.Tries = 0 THEN DefaultTries ELSE c.Tries]

\* The display name: check.Name, or the probe target.
DisplayName(c) ==
    IF c.Name # "" THEN c.Name ELSE IF c.Web # "" THEN c.Web ELSE c.Shell

\* worker: the defaults under the mutex, then the display name; a web check
\* without Return goes on to set it, every other check enters its loop.
SetDefaults(w) ==
    /\ pc[w] = "defaults_cs"
    /\ checks' = Store(checks, w, WithDefaults(checks[w]))
    /\ mutex' = Unlocked
    /\ name' = [name EXCEPT ![w] = DisplayName(checks[w])]
    /\ pc' = [pc EXCEPT ![w] =
                IF checks[w].Web # "" /\ checks[w].Return = 0
                THEN "return_lock" ELSE LoopEntry(checks'[w])]
    /\ UNCHANGED <<modified, started, now, i, out, err, ts, history, slept, flips, sent>>
    /\ UNCHANGED httpVars
    /\ UNCHANGED clientVars

\* worker: check.Return = 200 under the mutex, then the first web(check, ...).
SetReturn(w) ==
    /\ pc[w] = "return_cs"
    /\ checks' = Store(checks, w, [checks[w] EXCEPT !.Return = DefaultReturn])
    /\ mutex' = Unlocked
    /\ pc' = [pc EXCEPT ![w] = LoopEntry(checks[w])]
    /\ UNCHANGED <<modified, started, now, i, out, err, ts, name, history, slept, flips, sent>>
    /\ UNCHANGED httpVars
    /\ UNCHANGED clientVars

\* ------------------------------------------------------- the probes

\* The combined output of the n-th attempt of the cycle.
Output(n) == "output#" \o ToString(n)

\* err.Error() of an attempt that ended badly, by kind; the n-th attempt's own text.
ExitError(n) == "exit status 1#" \o ToString(n)

CompileError(match) == "error parsing regexp: " \o match

MatchError(match, got) == "Expected:\n" \o match \o "\n\nGot:\n" \o got

StatusError(url, n) == url \o " returned 500#" \o ToString(n)

NetError(n) == "dial tcp: connection refused#" \o ToString(n)

\* What a command can do: exit 0 or not, with output that matches check.Match or not.
ShellRuns == [exit0 : BOOLEAN, matches : BOOLEAN]

\* What a server can do: no response at all, or a status and a body that matches or not.
WebReplies == [responds : BOOLEAN, expected : BOOLEAN, matches : BOOLEAN]

\* One pass of the body of shell's retry loop, from exec.Command to the sleep test:
\* the new out, err and i, whether the loop is left, and whether the delay is slept.
ShellTry(c, iv, n, run) ==
    IF run.exit0
    THEN [out |-> Output(n),
          err |-> IF c.Match = "" THEN ""
                  ELSE IF ~Compiles(c.Match) THEN CompileError(c.Match)
                  ELSE IF run.matches THEN ""
                  ELSE MatchError(c.Match, Output(n)),
          i |-> iv, leave |-> TRUE, sleep |-> FALSE]
    ELSE [out |-> Output(n), err |-> ExitError(n), i |-> iv + 1,
          leave |-> ~(iv + 1 < c.Tries), sleep |-> iv + 1 < c.Tries]

\* fetch(url, match, code): nil ("") or the error.
fetch(c, n, reply) ==
    IF ~reply.responds THEN NetError(n)
    ELSE IF ~reply.expected THEN StatusError(c.Web, n)
    ELSE IF c.Match = "" THEN ""
    ELSE IF ~Compiles(c.Match) THEN CompileError(c.Match)
    ELSE IF reply.matches THEN ""
    ELSE MatchError(c.Match, Output(n))

\* WebTry without the break: a successful attempt is counted and retried like a
\* failed one.
WebTryNoBreak(c, iv, n, reply) ==
    [out |-> "", err |-> fetch(c, n, reply), i |-> iv + 1,
     leave |-> ~(iv + 1 < c.Tries), sleep |-> iv + 1 < c.Tries]

\* One pass of the body of web's retry loop.
WebTry(c, iv, n, reply) ==
    LET e == fetch(c, n, reply) IN
    IF e = ""
    THEN [out |-> "", err |-> e, i |-> iv, leave |-> TRUE, sleep |-> FALSE]
    ELSE [out |-> "", err |-> e, i |-> iv + 1,
          leave |-> ~(iv + 1 < c.Tries), sleep |-> iv + 1 < c.Tries]

\* What the attempt was, whatever the loop makes of it.
ShellOutcome(c, run) ==
    IF ~run.exit0 THEN "exit"
    ELSE IF c.Match = "" THEN "ok"
    ELSE IF ~Compiles(c.Match) THEN "badregex"
    ELSE IF run.matches THEN "ok" ELSE "nomatch"

WebOutcome(c, reply) ==
    IF ~reply.responds THEN "neterr"
    ELSE IF ~reply.expected THEN "status"
    ELSE IF c.Match = "" THEN "ok"
    ELSE IF ~Compiles(c.Match) THEN "badregex"
    ELSE IF reply.matches THEN "ok" ELSE "nomatch"

\* The worker's step after one pass of a retry loop.
AfterTry(w, r, outcome) ==
    /\ out' = [out EXCEPT ![w] = r.out]
    /\ err' = [err EXCEPT ![w] = r.err]
    /\ i' = [i EXCEPT ![w] = r.i]
    /\ history' = [history EXCEPT ![w] = Append(@, outcome)]
    /\ slept' = [slept EXCEPT ![w] = @ + (IF r.sleep THEN 1 ELSE 0)]
    /\ pc' = [pc EXCEPT ![w] = IF r.leave THEN "process" ELSE "attempt"]
    /\ UNCHANGED <<checks, modified, started, mutex, now, ts, name, flips, sent>>
    /\ UNCHANGED httpVars
    /\ UNCHANGED clientVars

\* shell: one attempt, and the retry delay when another attempt follows.
ShellAttempt(w) ==
    /\ pc[w] = "attempt"
    /\ checks[w].Web = ""
    /\ \E run \in ShellRuns :
          AfterTry(w, ShellTry(checks[w], i[w], Len(history[w]) + 1, run),
                   ShellOutcome(checks[w], run))

\* web: one attempt, and the retry delay when another attempt follows.
WebAttempt(w) ==
    /\ pc[w] = "attempt"
    /\ checks[w].Web # ""
    /\ \E reply \in WebReplies :
          AfterTry(w, WebTry(checks[w], i[w], Len(history[w]) + 1, reply),
                   WebOutcome(checks[w], reply))

\* ------------------------------------------------ processing the results

\* strconv.FormatBool, and encoding/json's text of a bool.
FormatBool(b) == IF b THEN "true" ELSE "false"


\* Changed without the inner ifs: every cycle is processed as a transition.
ChangedAlways(c, e) == TRUE

\* Changed with the inner if of the failure branch left out: every failed cycle
\* is processed as a transition.
ChangedOnFailure(c, e) == IF e = "" THEN c.Failed ELSE TRUE

\* The cycle's verdict differs from check.Failed: the two inner ifs of "Process results".
Changed(c, e) == IF e = "" THEN c.Failed ELSE ~c.Failed

\* Transitioned with Since kept for failures only: a recovery clears it.
TransitionedSinceWhenDown(c, e, t) ==
    [c EXCEPT !.Failed = (e # ""), !.Since = IF e # "" THEN FormatRFC3339(t) ELSE ""]

\* The writes of a transition's critical section to the check.
Transitioned(c, e, t) == [c EXCEPT !.Failed = (e # ""), !.Since = FormatRFC3339(t)]

\* The write of a transition's critical section to modified.
Refreshed(t) == etag(t)

\* The message of a notification: nil (<<>>) when fixed, <<msg>> when failed.
Message(c, o, e) ==
    IF e = "" THEN <<>> ELSE IF c.Web # "" THEN <<e>> ELSE <<o \o e>>

\* The locals of shell/web as the next call finds them.
Returned(w) ==
    /\ i' = [i EXCEPT ![w] = 0]
    /\ out' = [out EXCEPT ![w] = ""]
    /\ err' = [err EXCEPT ![w] = ""]
    /\ history' = [history EXCEPT ![w] = <<>>]
    /\ slept' = [slept EXCEPT ![w] = 0]

\* shell/web: the verdict equals check.Failed; the function returns.
ProcessSteady(w) ==
    /\ pc[w] = "process"
    /\ ~Changed(checks[w], err[w])
    /\ pc' = [pc EXCEPT ![w] = "interval"]
    /\ Returned(w)
    /\ UNCHANGED <<checks, modified, started, mutex, now, ts, name, flips, sent>>
    /\ UNCHANGED httpVars
    /\ UNCHANGED clientVars

\* shell/web: the verdict differs; ts := time.Now(), before mutex.Lock().
ProcessChange(w) ==
    /\ pc[w] = "process"
    /\ Changed(checks[w], err[w])
    /\ now < MaxClock
    /\ now' = now + 1
    /\ ts' = [ts EXCEPT ![w] = now + 1]
    /\ pc' = [pc EXCEPT ![w] = "transition_lock"]
    /\ UNCHANGED <<checks, modified, started, mutex, i, out, err, name,
                   history, slept, flips, sent>>
    /\ UNCHANGED httpVars
    /\ UNCHANGED clientVars

\* shell/web: Failed, Since and modified under the mutex, then Unlock.
Commit(w) ==
    /\ pc[w] = "transition_cs"
    /\ checks' = Store(checks, w, Transitioned(checks[w], err[w], ts[w]))
    /\ modified' = Refreshed(ts[w])
    /\ flips' = [flips EXCEPT ![w] = @ + (IF checks'[w].Failed # checks[w].Failed THEN 1 ELSE 0)]
    /\ mutex' = Unlocked
    /\ pc' = [pc EXCEPT ![w] = "notify"]
    /\ UNCHANGED <<started, now, i, out, err, ts, name, history, slept, sent>>
    /\ UNCHANGED httpVars
    /\ UNCHANGED clientVars

\* The subject of a notification, by the branch of "Process results" it is in.
Subject(nm, e) == (IF e = "" THEN "Fixed: " ELSE "Failed: ") \o nm

\* log(subject, message): the text printed.
log(subject, message) ==
    IF message = <<>> THEN "<5>" \o subject \o "\n"
    ELSE "<5>" \o subject \o "\n" \o message[1] \o "\n"

\* notify(check, subject, message): the text handed to sendmail -t.
notify(c, subject, message) ==
    "To: " \o c.Notify \o "\nSubject: " \o subject \o "\nX-Mailer: jsonmon\n\n"
    \o (IF message = <<>> THEN "" ELSE message[1]) \o "\n.\n"

\* alert with the message argument passed in both branches, empty when msg is nil.
alertWithEmptyMessage(c, nm, message, failed) ==
    <<FormatBool(failed), nm>> \o (IF message = <<>> THEN <<"">> ELSE message)

\* alert(check, name, msg, failed): the arguments of check.Alert.
alert(c, nm, message, failed) ==
    IF message # <<>> THEN <<FormatBool(failed), nm, message[1]>>
    ELSE <<FormatBool(failed), nm>>

\* What log, notify and alert add to the dispatched notifications of a cycle that
\* ended with output o and error e, for the display name nm; sendmail started or
\* not, the alert command ran or failed: a failure is a line on stderr.
Dispatched(c, s, nm, o, e, mailStarted, alertRan) ==
    LET message == Message(c, o, e)
        subject == Subject(nm, e)
    IN  [stderr |-> (IF c.Notify # "" /\ ~mailStarted THEN <<"<3>sendmail">> ELSE <<>>)
                    \o (IF c.Alert # "" /\ ~alertRan THEN <<"<3>" \o c.Alert \o " failed">> ELSE <<>>),
         log |-> s.log + 1,
         mail |-> s.mail + (IF c.Notify # "" THEN 1 ELSE 0),
         alert |-> s.alert + (IF c.Alert # "" THEN 1 ELSE 0),
         logged |-> log(subject, message),
         mailed |-> IF c.Notify # "" THEN notify(c, subject, message) ELSE s.mailed,
         alerted |-> IF c.Alert # "" THEN alert(c, nm, message, e # "") ELSE s.alerted]

\* shell/web: log, notify and alert after Unlock; the function returns.
Notify(w) ==
    /\ pc[w] = "notify"
    /\ \E mailStarted, alertRan \in BOOLEAN :
          sent' = [sent EXCEPT ![w] = Dispatched(checks[w], sent[w], name[w], out[w], err[w],
                                                 mailStarted, alertRan)]
    /\ pc' = [pc EXCEPT ![w] = "interval"]
    /\ Returned(w)
    /\ UNCHANGED <<checks, modified, started, mutex, now, ts, name, flips>>
    /\ UNCHANGED httpVars
    /\ UNCHANGED clientVars

\* worker: time.Sleep(repeat), then the next shell(...)/web(...).
IntervalSleep(w) ==
    /\ pc[w] = "interval"
    /\ pc' = [pc EXCEPT ![w] = NextCycle(checks[w])]
    /\ UNCHANGED <<checks, modified, started, mutex, now, i, out, err, ts, name,
                   history, slept, flips, sent>>
    /\ UNCHANGED httpVars
    /\ UNCHANGED clientVars

\* ------------------------------------------------------- the HTTP API

\* One member of a JSON object: its key and the text of its value.
Member(key, value) == <<key, value>>

\* The members of a Check that json.Marshal writes, in field order: the json tags
\* of type Check, omitempty dropping the empty strings, "-" dropping the rest.
MarshalCheck(c) ==
    (IF c.Name # "" THEN <<Member("name", c.Name)>> ELSE <<>>)
    \o (IF c.Web # "" THEN <<Member("web", c.Web)>> ELSE <<>>)
    \o (IF c.Shell # "" THEN <<Member("shell", c.Shell)>> ELSE <<>>)
    \o <<Member("failed", FormatBool(c.Failed))>>
    \o (IF c.Since # "" THEN <<Member("since", c.Since)>> ELSE <<>>)

\* json.Marshal(&checks): the array of the checks in slice order.
MarshalChecks(cs) == [k \in 1..Len(cs) |-> MarshalCheck(cs[k])]

\* json.Marshal(&version): one object.
MarshalVersion ==
    << <<Member("jsonmon", Version), Member("runtime", "go"),
         Member("os", "linux"), Member("arch", "amd64")>> >>

\* displayJSON with the comparison turned into a test for any validator at all:
\* a request that names a validator is answered 304.
displayJSONAnyValidator(path, inm, validator, data) ==
    IF inm # ""
    THEN [path |-> path, status |-> StatusNotModified,
          headers |-> {<<"Server", "jsonmon">>}, body |-> <<>>]
    ELSE [path |-> path, status |-> StatusOK,
          headers |-> {<<"Server", "jsonmon">>, <<"ETag", validator>>,
                       <<"Cache-Control", "no-cache">>,
                       <<"Access-Control-Allow-Origin", "*">>,
                       <<"X-Content-Type-Options", "nosniff">>,
                       <<"Content-Type", "application/json; charset=utf-8">>},
          body |-> data]

\* displayJSON: the response to a request with If-None-Match inm, for the
\* cache validator validator and the marshalled data.
displayJSON(path, inm, validator, data) ==
    IF inm = validator
    THEN [path |-> path, status |-> StatusNotModified,
          headers |-> {<<"Server", "jsonmon">>}, body |-> <<>>]
    ELSE [path |-> path, status |-> StatusOK,
          headers |-> {<<"Server", "jsonmon">>, <<"ETag", validator>>,
                       <<"Cache-Control", "no-cache">>,
                       <<"Access-Control-Allow-Origin", "*">>,
                       <<"X-Content-Type-Options", "nosniff">>,
                       <<"Content-Type", "application/json; charset=utf-8">>},
          body |-> data]

\* The If-None-Match values a client sends: none, the validator of its cached
\* copy, the validator of the process start, or a validator the server never sent.
Validators == {"", cache.etag, started, "W/\"x\""}

\* getChecks, displayJSON with lock: mutex.RLock() returns while no writer holds the mutex.
StatusRLock ==
    /\ hpc = "idle"
    /\ mutex.w = 0
    /\ \E inm \in Validators : req' = inm
    /\ mutex' = [mutex EXCEPT !.r = @ + 1]
    /\ hpc' = "rlocked"
    /\ UNCHANGED <<checks, modified, started, now, seen, resp, cache>>
    /\ UNCHANGED workerVars
    /\ UNCHANGED clientVars

\* displayJSON under RLock: If-None-Match is compared with *cache, which becomes
\* the ETag when they differ.
StatusCompare ==
    /\ hpc = "rlocked"
    /\ seen' = modified
    /\ hpc' = "compared"
    /\ UNCHANGED <<checks, modified, started, mutex, now, req, resp, cache>>
    /\ UNCHANGED workerVars
    /\ UNCHANGED clientVars

\* The header of a response ("" when it is not set).
Header(r, key) == IF \E h \in r.headers : h[1] = key
                  THEN (CHOOSE h \in r.headers : h[1] = key)[2] ELSE ""

\* getChecks, displayJSON: json.Marshal under RLock when the comparison failed,
\* RUnlock, then the response is written; the client keeps a 200.
StatusServe ==
    /\ hpc = "compared"
    /\ resp' = displayJSON("/status", req, seen, MarshalChecks(checks))
    /\ seen' = ""
    /\ req' = ""
    /\ mutex' = [mutex EXCEPT !.r = @ - 1]
    /\ cache' = IF resp'.status = StatusOK
                THEN [etag |-> Header(resp', "ETag"), body |-> resp'.body] ELSE cache
    /\ hpc' = "idle"
    /\ UNCHANGED <<checks, modified, started, now>>
    /\ UNCHANGED workerVars
    /\ UNCHANGED clientVars

\* getVersion, displayJSON without lock.
VersionServe ==
    /\ hpc = "idle"
    /\ \E inm \in Validators :
          resp' = displayJSON("/version", inm, started, MarshalVersion)
    /\ UNCHANGED <<checks, modified, started, mutex, now, hpc, req, seen, cache>>
    /\ UNCHANGED workerVars
    /\ UNCHANGED clientVars

\* ------------------------------------------------------ the specification

Next ==
    \/ \E w \in Workers : WorkerStart(w)
    \/ \E w \in Workers : Lock(w)
    \/ \E w \in Workers : InvalidMark(w)
    \/ \E w \in Workers : SetDefaults(w)
    \/ \E w \in Workers : SetReturn(w)
    \/ \E w \in Workers : ShellAttempt(w)
    \/ \E w \in Workers : WebAttempt(w)
    \/ \E w \in Workers : ProcessSteady(w)
    \/ \E w \in Workers : ProcessChange(w)
    \/ \E w \in Workers : Commit(w)
    \/ \E w \in Workers : Notify(w)
    \/ \E w \in Workers : IntervalSleep(w)
    \/ StatusRLock
    \/ StatusCompare
    \/ StatusServe
    \/ VersionServe

Spec == Init /\ [][Next]_vars

\* A step of the goroutine of check w that waits for nothing but the scheduler
\* (a sleep of the interval ends).
WorkerStep(w) ==
    /\ w \in Workers
    /\ \/ WorkerStart(w) \/ InvalidMark(w) \/ SetDefaults(w) \/ SetReturn(w)
       \/ ProcessSteady(w) \/ ProcessChange(w) \/ Commit(w) \/ Notify(w)
       \/ IntervalSleep(w)

\* mutex.Lock() of check w returns.
Acquire(w) == w \in Workers /\ Lock(w)

\* The command or the HTTP request of an attempt of check w returns.
ProbeReturns(w) == w \in Workers /\ (ShellAttempt(w) \/ WebAttempt(w))

\* displayJSON goes on once it holds the read lock.
HandlerStep == StatusCompare \/ StatusServe

\* The Go scheduler runs every runnable goroutine, and a goroutine blocked in
\* Lock gets the mutex: a waiting Lock keeps new readers out, and waiting
\* writers are served in turn.
Scheduling ==
    /\ \A w \in WorkerIds : WF_vars(WorkerStep(w)) /\ SF_vars(Acquire(w))
    /\ WF_vars(HandlerStep)

FairInit == ProgramInitOn(FairConfigs) /\ client = NoRequest(0)

\* Fair scheduling, probes that may never return.
IsolationSpec == FairInit /\ [][Next]_vars /\ Scheduling

\* Fair scheduling, and every probe attempt returns.
FairSpec ==
    FairInit /\ [][Next]_vars /\ Scheduling /\ \A w \in WorkerIds : WF_vars(ProbeReturns(w))

\* --------------------------------------------- the redirects of a fetch

\* redirect(req, via): nil (""), or the error that stops the client.
redirect(via) == IF via >= MaxVia THEN "stopped after 10 redirects" ELSE ""

\* client.Do sends the request; the target answers its first n requests with a
\* redirect and the next with the expected status. A redirect makes the next
\* request, which net/http gives its own User-Agent.
ClientSend ==
    /\ client.state = "request"
    /\ client' = [client EXCEPT !.via = @ + 1,
                                !.agent = IF client.via + 1 <= client.n THEN "Go-http-client/1.1" ELSE @,
                                !.state = IF client.via + 1 <= client.n THEN "redirect" ELSE "done"]
    /\ UNCHANGED programVars

\* client.Do calls CheckRedirect with the upcoming request and the requests made
\* already (via), and stops with its error; redirect sets the User-Agent.
ClientCheckRedirect ==
    /\ client.state = "redirect"
    /\ client' = [client EXCEPT !.err = redirect(client.via),
                                !.agent = IF redirect(client.via) = "" THEN "jsonmon" ELSE @,
                                !.state = IF redirect(client.via) = "" THEN "request" ELSE "done"]
    /\ UNCHANGED programVars

RedirectInit == ProgramInit /\ client \in {NoRequest(n) : n \in 0..MaxChain}

RedirectNext == ClientSend \/ ClientCheckRedirect

\* One fetch, for every length of the target's chain of redirects.
RedirectSpec == RedirectInit /\ [][RedirectNext]_vars

\* ------------------------------------------------------------ the claims

\* A check definition with exactly one of web and shell.
ValidDefinition(c) == (c.Web = "") # (c.Shell = "")

\* The value of a member of a JSON object ("" when the object has no such member).
Field(obj, key) ==
    IF \E k \in 1..Len(obj) : obj[k][1] = key
    THEN obj[CHOOSE k \in 1..Len(obj) : obj[k][1] = key][2] ELSE ""

\* The timestamp a change token was made from.
TokenTime(token) == CHOOSE t \in 0..MaxClock : etag(t) = token

\* The verdict of the cycle worker w has finished probing for: TRUE is failure.
VerdictFailed(w) == err[w] # ""

\* C1: a polling cycle of a valid check whose final verdict equals the check's
\* failed flag changes neither failed nor since nor the change token and
\* dispatches no log line, mail or alert; a check that never failed a cycle has
\* failed = false and an empty since, and while no check has transitioned the
\* token has its startup value.
C1_SteadyCycleChangesNothing ==
    /\ [][\A w \in Workers :
            (/\ ValidDefinition(checks[w])
             /\ pc[w] = "process"
             /\ VerdictFailed(w) = checks[w].Failed
             /\ pc'[w] # pc[w])
            => (/\ pc'[w] = "interval"
                /\ checks'[w].Failed = checks[w].Failed
                /\ checks'[w].Since = checks[w].Since
                /\ modified' = modified
                /\ sent' = sent)]_vars
    /\ [](\A w \in Workers :
            (ValidDefinition(checks[w]) /\ flips[w] = 0)
            => (~checks[w].Failed /\ checks[w].Since = "" /\ sent[w] = NoNotifications))
    /\ []((\A w \in Workers : ValidDefinition(checks[w]) => flips[w] = 0)
          => modified = started)

\* C1 witness: a cycle whose every attempt failed is about to be processed for a
\* check that is already failed, and the token is no longer the startup one.
C1_Witness ==
    \E w \in Workers :
        /\ ValidDefinition(checks[w])
        /\ pc[w] = "process"
        /\ VerdictFailed(w)
        /\ checks[w].Failed
        /\ sent[w].log = 1
        /\ modified # started

\* C2: notifications are edge-triggered: a valid check has as many log lines
\* dispatched as its failed flag has changed value, except between the state
\* update of a transition and its dispatch, when exactly that one is outstanding;
\* so the dispatch follows the update and precedes the worker's next probe; and
\* the token is refreshed only by a step that changes a failed flag.
C2_EdgeTriggered ==
    /\ [](\A w \in Workers :
            ValidDefinition(checks[w])
            => /\ flips[w] = sent[w].log + (IF pc[w] = "notify" THEN 1 ELSE 0)
               /\ sent[w].mail = (IF checks[w].Notify # "" THEN sent[w].log ELSE 0)
               /\ sent[w].alert = (IF checks[w].Alert # "" THEN sent[w].log ELSE 0))
    /\ [][modified' # modified
          => \E w \in Workers : checks'[w].Failed # checks[w].Failed]_vars

\* C2 witness: a check has gone down and come back, both notifications are out,
\* and its worker is probing again.
C2_Witness ==
    \E w \in Workers :
        /\ ValidDefinition(checks[w])
        /\ pc[w] = "attempt"
        /\ flips[w] = 2
        /\ sent[w].log = 2
        /\ sent[w].mail = 2

\* C3: the worker of a check with neither or both of web and shell makes no
\* probe attempt, has set failed = true when it returns, and once failed is
\* true no step changes the check's failed or since.
C3_InvalidNeverPolls ==
    /\ [](\A w \in Workers :
            ~ValidDefinition(checks[w])
            => /\ history[w] = <<>>
               /\ pc[w] \in {"start", "invalid_lock", "invalid_cs", "returned"}
               /\ (pc[w] = "returned" => checks[w].Failed))
    /\ [][\A w \in Workers :
            (~ValidDefinition(checks[w]) /\ checks[w].Failed)
            => (checks'[w].Failed /\ checks'[w].Since = checks[w].Since)]_vars

\* C3 witness: the worker of a check with both web and shell has returned.
C3_Witness ==
    \E w \in Workers :
        /\ checks[w].Web # "" /\ checks[w].Shell # ""
        /\ pc[w] = "returned"
        /\ checks[w].Failed

\* C4: no 200 response of /status shows a check with neither or both of web and
\* shell with failed = false.
C4_InvalidNeverShownUp ==
    (resp.path = "/status" /\ resp.status = StatusOK)
    => \A k \in 1..Len(checks) :
          ~ValidDefinition(checks[k]) => Field(resp.body[k], "failed") = "true"

\* C5: when the token equals the ETag of the client's copy of an earlier 200
\* response of /status (so that the client would be answered 304), the snapshot
\* /status would serialize now equals the body of that copy.
C5_TokenCoversContent ==
    (cache.etag = modified) => cache.body = MarshalChecks(checks)

\* C6: every transition's critical section leaves the token made from a later
\* timestamp than the token it replaces.
C6_TokenMovesForward ==
    [][\A w \in Workers :
          (pc[w] = "transition_cs" /\ pc'[w] = "notify")
          => TokenTime(modified') > TokenTime(modified)]_vars

\* The attempts of the cycle of worker w so far have all failed.
AllFailed(w) == \A k \in 1..Len(history[w]) : history[w][k] # "ok"

\* C7: a cycle of a valid check with tries >= 1 whose every attempt failed has
\* made exactly tries attempts and slept the retry delay exactly tries - 1 times.
C7_FailedCycleUsesAllTries ==
    \A w \in Workers :
        (/\ ValidDefinition(checks[w])
         /\ checks[w].Tries >= 1
         /\ pc[w] = "process"
         /\ history[w] # <<>>
         /\ AllFailed(w))
        => (Len(history[w]) = checks[w].Tries /\ slept[w] = checks[w].Tries - 1)

\* The diagnostic of the n-th attempt of a cycle of check c that ended as kind.
Diagnostic(c, kind, n) ==
    LET text == CASE kind = "exit" -> ExitError(n)
                  [] kind = "badregex" -> CompileError(c.Match)
                  [] kind = "nomatch" -> MatchError(c.Match, Output(n))
                  [] kind = "status" -> StatusError(c.Web, n)
                  [] kind = "neterr" -> NetError(n)
    IN  IF c.Web # "" THEN text ELSE Output(n) \o text

\* Worker w is between the last attempt of a cycle and the end of its processing.
Processing(w) == pc[w] \in {"process", "transition_lock", "transition_cs", "notify"}

\* C8: with tries >= 1, no attempt is made after a successful one, at least one
\* attempt is made, the verdict of the cycle is the outcome of the last attempt
\* made, a cycle ending in success has no diagnostic and a cycle ending in
\* failure has the diagnostic of its last attempt.
C8_LastAttemptDecides ==
    \A w \in Workers :
        (ValidDefinition(checks[w]) /\ checks[w].Tries >= 1)
        => /\ \A k \in 1..(Len(history[w]) - 1) : history[w][k] # "ok"
           /\ pc[w] = "attempt" => AllFailed(w) /\ Len(history[w]) < checks[w].Tries
           /\ Processing(w) =>
                LET n == Len(history[w]) IN
                /\ n >= 1
                /\ n <= checks[w].Tries
                /\ VerdictFailed(w) = (history[w][n] # "ok")
                /\ Message(checks[w], out[w], err[w]) =
                      IF history[w][n] = "ok" THEN <<>>
                      ELSE <<Diagnostic(checks[w], history[w][n], n)>>

\* C8 witness: a web check failed its first attempt and succeeded at the second.
C8_Witness ==
    \E w \in Workers :
        /\ checks[w].Web # ""
        /\ pc[w] = "process"
        /\ history[w] = <<"status", "ok">>
        /\ err[w] = ""

\* C9: every cycle of a valid check that reaches its verdict has made at least
\* one probe attempt, whatever tries is configured.
C9_AtLeastOneAttempt ==
    \A w \in Workers :
        (ValidDefinition(checks[w]) /\ pc[w] = "process") => Len(history[w]) >= 1

\* The body of /status shows the checks cs, in their order.
Shows(body, cs) ==
    /\ Len(body) = Len(cs)
    /\ \A k \in 1..Len(cs) :
          /\ Field(body[k], "name") = cs[k].Name
          /\ Field(body[k], "web") = cs[k].Web
          /\ Field(body[k], "shell") = cs[k].Shell
          /\ Field(body[k], "failed") = (IF cs[k].Failed THEN "true" ELSE "false")
          /\ Field(body[k], "since") = cs[k].Since

\* C10: /status answers a request whose If-None-Match equals the token at the
\* time it is served with 304 and no body, and every other request (another
\* validator, or none) with 200, the checks in configuration order and the token
\* as ETag.
C10_ConditionalGet ==
    [][(hpc = "compared" /\ hpc' = "idle")
       => /\ resp'.path = "/status"
          /\ IF req = modified
             THEN resp'.status = StatusNotModified /\ resp'.body = <<>>
             ELSE /\ resp'.status = StatusOK
                  /\ Shows(resp'.body, checks)
                  /\ Header(resp', "ETag") = modified]_vars

\* C10 witness: after a transition, /status has answered 304 to the validator
\* of the client's copy, which shows the transition.
C10_Witness ==
    /\ resp.path = "/status"
    /\ resp.status = StatusNotModified
    /\ cache.etag = modified
    /\ cache.etag # started
    /\ \E k \in 1..Len(cache.body) : Field(cache.body[k], "failed") = "true"

\* A response carries the header key with the value value.
Carries(r, key, value) == <<key, value>> \in r.headers

\* C12: every response written, 304 as well as 200, carries Cache-Control:
\* no-cache, Access-Control-Allow-Origin: * and X-Content-Type-Options: nosniff.
C12_HeadersOnEveryResponse ==
    resp.status # 0
    => /\ Carries(resp, "Cache-Control", "no-cache")
       /\ Carries(resp, "Access-Control-Allow-Origin", "*")
       /\ Carries(resp, "X-Content-Type-Options", "nosniff")

\* The display label of a check definition: its name, or its probe target.
Label(c) == IF c.Name # "" THEN c.Name ELSE IF c.Web # "" THEN c.Web ELSE c.Shell

\* C13: a 200 response of /status shows every valid check with a name: the
\* configured name, or the probe target when none is configured.
C13_NameInStatus ==
    (resp.path = "/status" /\ resp.status = StatusOK)
    => \A k \in 1..Len(checks) :
          ValidDefinition(checks[k]) => Field(resp.body[k], "name") = Label(checks[k])

\* Worker w is between a mutex.Lock() and the mutex.Unlock() that follows it.
InCriticalSection(w) == pc[w] \in {"invalid_cs", "defaults_cs", "return_cs", "transition_cs"}

\* C14: while /status holds the read lock no worker is inside a critical
\* section, and a 200 response of /status carries as ETag the token, and as body
\* the failed and since of every check, of the one state it is served in: never
\* the body after a transition with the token from before it, never a failed
\* and a since of different transitions.
C14_TransitionsAtomicToReaders ==
    /\ [](hpc # "idle" => (mutex.r = 1 /\ mutex.w = 0 /\ \A w \in Workers : ~InCriticalSection(w)))
    /\ [][(hpc = "compared" /\ hpc' = "idle" /\ resp'.status = StatusOK)
          => /\ Header(resp', "ETag") = modified
             /\ Len(resp'.body) = Len(checks)
             /\ \A k \in 1..Len(checks) :
                   /\ Field(resp'.body[k], "failed") = (IF checks[k].Failed THEN "true" ELSE "false")
                   /\ Field(resp'.body[k], "since") = checks[k].Since]_vars

\* C14 witness: /status has compared the token and is about to marshal the
\* checks while a worker with a transition to commit waits for the mutex.
C14_Witness ==
    /\ hpc = "compared"
    /\ req # seen
    /\ \E w \in Workers : pc[w] = "transition_lock"

\* C15: a worker holds the exclusive lock exactly while it is inside a critical
\* section, so never while it probes, sleeps or notifies; inside a critical
\* section its next step is never blocked, and that step releases the lock.
C15_LockOnlyAroundWrites ==
    /\ [](\A w \in Workers :
            /\ (mutex.w = w) = InCriticalSection(w)
            /\ InCriticalSection(w)
               => ENABLED (InvalidMark(w) \/ SetDefaults(w) \/ SetReturn(w) \/ Commit(w)))
    /\ [](mutex.w \in {0} \cup Workers)
    /\ [][\A w \in Workers : (mutex.w = w /\ pc'[w] # pc[w]) => mutex'.w = 0]_vars

\* C15 witness: one worker is inside the critical section of a transition while
\* another is in the middle of its retry loop.
C15_Witness ==
    \E w, v \in Workers :
        /\ pc[w] = "transition_cs"
        /\ mutex.w = w
        /\ pc[v] = "attempt"
        /\ history[v] # <<>>

\* C16: a step of worker w leaves every other check as it was, and a transition
\* changes nothing of its own check but failed and since; a step of the /status
\* or /version handler changes no check and not the token; and nothing but a
\* worker's step changes a check or the token.
C16_SingleWriter ==
    [][/\ \A w \in Workers :
            pc'[w] # pc[w]
            => /\ \A k \in Workers \ {w} : checks'[k] = checks[k]
               /\ pc[w] = "transition_cs"
                  => checks'[w] = [checks[w] EXCEPT !.Failed = checks'[w].Failed,
                                                    !.Since = checks'[w].Since]
       /\ (hpc' # hpc \/ resp' # resp \/ req' # req \/ seen' # seen)
          => (checks' = checks /\ modified' = modified)
       /\ (checks' # checks \/ modified' # modified)
          => \E w \in Workers : pc'[w] # pc[w]]_vars

\* C16 witness: the second check has gone through a transition while the first,
\* also valid, has its defaults and has never changed.
C16_Witness ==
    /\ Len(checks) = 2
    /\ ValidDefinition(checks[1]) /\ ValidDefinition(checks[2])
    /\ pc[2] = "notify"
    /\ checks[2].Failed
    /\ flips[1] = 0
    /\ checks[1].Repeat = DefaultRepeat

\* C20: for a valid check, since is empty exactly when failed has never changed
\* value, failed = true implies a since, and a since once set is never empty again.
C20_SinceTracksTransitions ==
    /\ [](\A w \in Workers :
            ValidDefinition(checks[w])
            => /\ (checks[w].Since = "") = (flips[w] = 0)
               /\ checks[w].Failed => checks[w].Since # "")
    /\ [][\A w \in Workers :
            (ValidDefinition(checks[w]) /\ checks[w].Since # "") => checks'[w].Since # ""]_vars

\* C20 witness: a valid check has failed and recovered and shows the time of
\* its recovery.
C20_Witness ==
    \E w \in Workers :
        /\ ValidDefinition(checks[w])
        /\ flips[w] = 2
        /\ ~checks[w].Failed
        /\ checks[w].Since # ""

\* The diagnostic of the cycle worker w has finished: that of its last attempt.
CycleDiagnostic(w) ==
    Diagnostic(checks[w], history[w][Len(history[w])], Len(history[w]))

\* C18: the dispatch of a transition to DOWN logs "Failed: <name>" with the
\* diagnostic and calls the alert command, when one is set, with exactly
\* ("true", name, diagnostic); the dispatch of a transition to UP logs
\* "Fixed: <name>" and calls it with exactly ("false", name); a mail goes out only
\* to a notify address and the alert command runs only when set.
C18_PayloadMatchesState ==
    [][\A w \in Workers :
          (pc[w] = "notify" /\ pc'[w] # "notify")
          => LET c == checks[w]
                 s == sent'[w]
             IN  /\ s.log = sent[w].log + 1
                 /\ IF c.Failed
                    THEN /\ s.logged = "<5>Failed: " \o Label(c) \o "\n" \o CycleDiagnostic(w) \o "\n"
                         /\ c.Alert # "" => s.alerted = <<"true", Label(c), CycleDiagnostic(w)>>
                    ELSE /\ s.logged = "<5>Fixed: " \o Label(c) \o "\n"
                         /\ c.Alert # "" => s.alerted = <<"false", Label(c)>>
                 /\ s.alert = sent[w].alert + (IF c.Alert # "" THEN 1 ELSE 0)
                 /\ s.mail = sent[w].mail + (IF c.Notify # "" THEN 1 ELSE 0)
                 /\ c.Alert = "" => s.alerted = sent[w].alerted
                 /\ c.Notify = "" => s.mailed = sent[w].mailed]_vars

\* C18 witness: a check with an alert command has failed and recovered, and the
\* command was last called for the recovery.
C18_Witness ==
    \E w \in Workers :
        /\ checks[w].Alert # ""
        /\ sent[w].alert = 2
        /\ sent[w].alerted = <<"false", "disk">>
        /\ sent[w].logged = "<5>Fixed: disk\n"

\* C19: a fetch of a target that answers n consecutive redirects and then the
\* expected status succeeds when n <= 10 and fails when n >= 11.
C19_RedirectLimit ==
    client.state = "done" => ((client.err = "") = (client.n <= 10))

\* Check w exists and its definition is valid.
LiveWorker(w) == w \in Workers /\ ValidDefinition(checks[w])

\* Worker w waits for its probe to return.
InProbe(w) == w \in Workers /\ pc[w] = "attempt"

\* Worker w is about to take the time of a transition and the clock of the
\* model has no later value.
ClockExhausted(w) == w \in Workers /\ pc[w] = "process" /\ now = MaxClock

\* Worker w has finished a polling cycle and sleeps the interval.
CycleDone(w) == ~LiveWorker(w) \/ pc[w] = "interval"

\* C11: with probes that may hang forever, a valid check is kept from finishing
\* its polling cycles (transitions committed and dispatched) only by its own
\* probe never returning, whatever the probes of the other checks do; a /status
\* request that is being served is answered; the mutex is never held by a
\* worker inside a probe and is free again and again.
C11_WorkerIsolation ==
    /\ [](\A w \in Workers : pc[w] \in {"attempt", "interval"} => mutex.w # w)
    /\ []<>(mutex.w = 0)
    /\ []<>(hpc = "idle")
    /\ \A w \in WorkerIds :
          \/ []<>CycleDone(w)
          \/ <>[]InProbe(w)
          \/ <>[]ClockExhausted(w)

\* C11 witness: one check is inside a probe while another check has committed two
\* transitions, finished its cycle, and /status is being served.
C11_Witness ==
    \E h, w \in Workers :
        /\ h # w
        /\ pc[h] = "attempt"
        /\ flips[h] = 0
        /\ flips[w] = 2
        /\ pc[w] = "interval"
        /\ hpc = "compared"

\* Worker w leaves the sleep of the interval for the next cycle.
CycleStart(w) == w \in Workers /\ pc[w] = "interval" /\ pc'[w] \in {"attempt", "process"}

\* C17: with every probe attempt and every notification returning, the worker
\* of a valid check starts a new polling cycle infinitely often, whatever the
\* outcomes of its probes and of its mails and alert commands (in the model:
\* until the clock has no value left for the next transition).
C17_WorkerNeverStops ==
    \A w \in WorkerIds :
        \/ <>[](~LiveWorker(w))
        \/ []<><<CycleStart(w)>>_vars
        \/ <>[]ClockExhausted(w)

\* C17 witness: a check has failed, the mail of the transition could not be sent,
\* and the worker is in the first attempt of a later cycle.
C17_Witness ==
    \E w \in Workers :
        /\ checks[w].Failed
        /\ sent[w].log >= 1
        /\ sent[w].stderr # <<>>
        /\ pc[w] = "attempt"
        /\ history[w] = <<>>

====
